---- MODULE Spec2Model ----
(***************************************************************************)
(* Model of payment-prototype/decision_flow.js: the analyzeCase decision   *)
(* function, the RULES thresholds, the scenario runner executed when the   *)
(* module is loaded, and callers of the exported analyzeCase.              *)
(*                                                                         *)
(* JavaScript values are tagged records, so that the coercions the code    *)
(* relies on (ToBoolean in `&&`, ToNumber in `<` and `>`, no coercion in   *)
(* `===`) are computed as the language computes them.  Numbers are         *)
(* rationals n/d in lowest terms with d > 0; NaN is the number with d = 0. *)
(***************************************************************************)
EXTENDS Integers, Sequences, FiniteSets, TLC

VARIABLES RULES, pc, i, data, result, console, outputs, calls

vars == <<RULES, pc, i, data, result, console, outputs, calls>>

(***************************************************************************)
(* JavaScript values                                                       *)
(***************************************************************************)
Num(n, d) == [t |-> "number", n |-> n, d |-> d]

Str(s) == [t |-> "string", s |-> s]

Bool(b) == [t |-> "boolean", b |-> b]

Undefined == [t |-> "undefined"]

Null == [t |-> "null"]

NaN == Num(0, 0)

IsNaN(v) == v.t = "number" /\ v.d = 0

\* StringToNumber on the string literals that occur as field values: the
\* empty string is +0, a decimal literal is its value, anything else is NaN.
StringToNumber(s) ==
    CASE s = "" -> Num(0, 1)
      [] s = "6000" -> Num(6000, 1)
      [] s = "1" -> Num(1, 1)
      [] OTHER -> NaN

\* ToNumber, applied by the relational operators to a non-string operand pair.
ToNumber(v) ==
    CASE v.t = "number" -> v
      [] v.t = "undefined" -> NaN
      [] v.t = "null" -> Num(0, 1)
      [] v.t = "boolean" -> (IF v.b THEN Num(1, 1) ELSE Num(0, 1))
      [] v.t = "string" -> StringToNumber(v.s)

\* ToBoolean, applied by `&&` to its left operand.
ToBoolean(v) ==
    CASE v.t = "boolean" -> v.b
      [] v.t = "number" -> ~IsNaN(v) /\ v.n # 0
      [] v.t = "string" -> v.s # ""
      [] OTHER -> FALSE

\* a === b: same type and same value; NaN is not equal to itself.
StrictEquals(a, b) == a = b /\ ~IsNaN(a)

\* a < b where b is a number (every comparison of the code has a field of
\* RULES on the right): both operands go through ToNumber and a NaN on
\* either side makes the comparison false.
LessThan(a, b) ==
    LET x == ToNumber(a)
        y == ToNumber(b)
    IN  /\ ~IsNaN(x)
        /\ ~IsNaN(y)
        /\ x.n * y.d < y.n * x.d

\* a > b is b < a with the operands evaluated left to right.
GreaterThan(a, b) == LessThan(b, a)

(***************************************************************************)
(* RULES (lines 19-23)                                                     *)
(***************************************************************************)
HIGH_VALUE_THRESHOLD == 5000

AUTO_REVERSAL_WINDOW_HOURS == 24

CERTAINTY_THRESHOLD == 1

RulesInit ==
    [HIGH_VALUE_THRESHOLD |-> Num(HIGH_VALUE_THRESHOLD, 1),
     AUTO_REVERSAL_WINDOW_HOURS |-> Num(AUTO_REVERSAL_WINDOW_HOURS, 1),
     CERTAINTY_THRESHOLD |-> Num(CERTAINTY_THRESHOLD, 1)]

(***************************************************************************)
(* Case records.  A property the object literal does not have reads as     *)
(* undefined, so an absent field is a field holding Undefined.             *)
(***************************************************************************)
Case(st, gw, am, cu, deb, el, sc) ==
    [t |-> "object",
     status |-> st,
     gateway_response |-> gw,
     amount |-> am,
     currency |-> cu,
     debited_from_customer |-> deb,
     time_elapsed_hours |-> el,
     system_certainty_score |-> sc]

\* Completion records of a call.
Return(decision, reason, subst) ==
    [completion |-> "return", decision |-> decision, reason |-> reason,
     subst |-> subst]

Throw(error) ==
    [completion |-> "throw", decision |-> "", reason |-> error,
     subst |-> Undefined]

NoResult ==
    [completion |-> "none", decision |-> "", reason |-> "",
     subst |-> Undefined]

\* The fixed text of each reason; a template literal's `${...}` hole is the
\* subst field of the completion record.
ReasonCritical == "CRITICAL: Customer debited but transaction marked FAILED. Reconciliation required."

ReasonRisk == "RISK: Transaction amount (${data.amount}) exceeds safety threshold. Human review mandatory."

ReasonUncertainty == "UNCERTIANTY: System cannot definitively verify funds location."

ReasonStandard == "STANDARD PROCESS: Transaction is pending. Auto-reversal window (${RULES.AUTO_REVERSAL_WINDOW_HOURS}h) active. Advise customer to wait."

ReasonSlaBreach == "SLA BREACH: Pending state exceeded auto-reversal window."

ReasonDefault == "DEFAULT: Case did not match safe automation attributes."

(***************************************************************************)
(* analyzeCase (lines 25-73)                                               *)
(***************************************************************************)
\* Reading a property of null or undefined throws a TypeError.
IsObjectCoercible(v) == v.t \notin {"null", "undefined"}

isLimboByGateway(d) ==
    /\ ToBoolean(d.debited_from_customer)
    /\ StrictEquals(d.gateway_response, Str("FAILURE"))

\* line 30: data.debited_from_customer && data.status === 'FAILED'
isLimbo(d) ==
    /\ ToBoolean(d.debited_from_customer)
    /\ StrictEquals(d.status, Str("FAILED"))

isHighValueInclusive(d, rules) ==
    ~LessThan(d.amount, rules.HIGH_VALUE_THRESHOLD) /\ ~IsNaN(ToNumber(d.amount))

\* line 38: data.amount > RULES.HIGH_VALUE_THRESHOLD
isHighValue(d, rules) == GreaterThan(d.amount, rules.HIGH_VALUE_THRESHOLD)

isLowCertaintyInclusive(d, rules) ==
    ~GreaterThan(d.system_certainty_score, rules.CERTAINTY_THRESHOLD)
        /\ ~IsNaN(ToNumber(d.system_certainty_score))

\* line 46: data.system_certainty_score < RULES.CERTAINTY_THRESHOLD
isLowCertainty(d, rules) ==
    LessThan(d.system_certainty_score, rules.CERTAINTY_THRESHOLD)

isPendingLoose(d) == ~StrictEquals(d.status, Str("FAILED"))

\* line 54: data.status === 'PENDING'
isPending(d) == StrictEquals(d.status, Str("PENDING"))

withinWindowInclusive(d, rules) ==
    ~GreaterThan(d.time_elapsed_hours, rules.AUTO_REVERSAL_WINDOW_HOURS)
        /\ ~IsNaN(ToNumber(d.time_elapsed_hours))

\* line 55: data.time_elapsed_hours < RULES.AUTO_REVERSAL_WINDOW_HOURS
withinWindow(d, rules) ==
    LessThan(d.time_elapsed_hours, rules.AUTO_REVERSAL_WINDOW_HOURS)

\* The high-value check moved in front of the limbo check.
analyzeCaseHighValueFirst(d, rules) ==
    IF ~IsObjectCoercible(d) THEN Throw("TypeError")
    ELSE IF isHighValue(d, rules)
        THEN Return("ESCALATE", ReasonRisk, d.amount)
    ELSE IF isLimbo(d)
        THEN Return("ESCALATE", ReasonCritical, Undefined)
    ELSE IF isLowCertainty(d, rules)
        THEN Return("ESCALATE", ReasonUncertainty, Undefined)
    ELSE IF isPending(d)
        THEN IF withinWindow(d, rules)
             THEN Return("WAIT", ReasonStandard, rules.AUTO_REVERSAL_WINDOW_HOURS)
             ELSE Return("ESCALATE", ReasonSlaBreach, Undefined)
    ELSE Return("ESCALATE", ReasonDefault, Undefined)

\* The final return statement left out: the function falls off its end and
\* returns undefined.
analyzeCaseNoDefault(d, rules) ==
    IF ~IsObjectCoercible(d) THEN Throw("TypeError")
    ELSE IF isLimbo(d)
        THEN Return("ESCALATE", ReasonCritical, Undefined)
    ELSE IF isHighValue(d, rules)
        THEN Return("ESCALATE", ReasonRisk, d.amount)
    ELSE IF isLowCertainty(d, rules)
        THEN Return("ESCALATE", ReasonUncertainty, Undefined)
    ELSE IF isPending(d)
        THEN IF withinWindow(d, rules)
             THEN Return("WAIT", ReasonStandard, rules.AUTO_REVERSAL_WINDOW_HOURS)
             ELSE Return("ESCALATE", ReasonSlaBreach, Undefined)
    ELSE Return("", "", Undefined)

\* The completion of analyzeCase(data) with RULES = rules.  The first
\* property read (line 30) throws when data is null or undefined.
analyzeCase(d, rules) ==
    IF ~IsObjectCoercible(d) THEN Throw("TypeError")
    ELSE IF isLimbo(d)
        THEN Return("ESCALATE", ReasonCritical, Undefined)
    ELSE IF isHighValue(d, rules)
        THEN Return("ESCALATE", ReasonRisk, d.amount)
    ELSE IF isLowCertainty(d, rules)
        THEN Return("ESCALATE", ReasonUncertainty, Undefined)
    ELSE IF isPending(d)
        THEN IF withinWindow(d, rules)
             THEN Return("WAIT", ReasonStandard, rules.AUTO_REVERSAL_WINDOW_HOURS)
             ELSE Return("ESCALATE", ReasonSlaBreach, Undefined)
    ELSE Return("ESCALATE", ReasonDefault, Undefined)

\* An escalated case is marked on the record that was passed in.
CallAnalyzeCaseMarking(d, rules) ==
    LET r == analyzeCase(d, rules)
    IN  [ret |-> r,
         data |-> IF r.decision = "ESCALATE"
                  THEN [d EXCEPT !.status = Str("ESCALATED")]
                  ELSE d,
         rules |-> rules,
         lines |-> 1]

\* Everything a call analyzeCase(data) leaves behind: its completion, the
\* object that was passed, the RULES object, and the number of lines written
\* to the console (line 26 logs the case before any rule is looked at; the
\* body assigns to no property of data or RULES).
CallAnalyzeCase(d, rules) ==
    [ret |-> analyzeCase(d, rules),
     data |-> d,
     rules |-> rules,
     lines |-> 1]

(***************************************************************************)
(* scenarios (lines 79-113)                                                *)
(***************************************************************************)
scenarios ==
    << [name |-> "Standard Pending Reversal",
        data |-> Case(Str("PENDING"), Str("TIMEOUT"), Num(150, 1), Undefined,
                      Bool(TRUE), Num(2, 1), Num(1, 1))],
       [name |-> "Money Limbo (Debited but Failed)",
        data |-> Case(Str("FAILED"), Str("FAILURE"), Num(4500, 1), Undefined,
                      Bool(TRUE), Num(1, 2), Num(1, 1))],
       [name |-> "High Value Panic",
        data |-> Case(Str("PENDING"), Str("TIMEOUT"), Num(12000, 1), Undefined,
                      Bool(TRUE), Num(1, 1), Num(1, 1))] >>

(***************************************************************************)
(* Records a caller of the exported analyzeCase may pass                   *)
(***************************************************************************)
MaxCalls == 2

StatusValues ==
    {Str("FAILED"), Str("PENDING"), Str("SUCCESS"), Str("REFUNDED"), Undefined}

GatewayValues == {Str("FAILURE"), Str("TIMEOUT"), Str("SUCCESS"), Str("BOGUS")}

AmountValues ==
    {Num(-1, 1), Num(150, 1), Num(HIGH_VALUE_THRESHOLD, 1),
     Num(2 * HIGH_VALUE_THRESHOLD + 1, 2), Undefined, Str("abc")}

CurrencyValues == {Str("INR"), Undefined}

DebitedValues == {Bool(TRUE), Bool(FALSE), Undefined}

ElapsedValues ==
    {Num(-1, 1), Num(2, 1), Num(2 * AUTO_REVERSAL_WINDOW_HOURS - 1, 2),
     Num(AUTO_REVERSAL_WINDOW_HOURS, 1),
     Num(2 * AUTO_REVERSAL_WINDOW_HOURS + 1, 2), Undefined}

CertaintyValues ==
    {Num(-1, 2), Num(1, 2), Num(CERTAINTY_THRESHOLD, 1), Num(3, 2), Undefined}

Inputs ==
    {Case(st, gw, am, cu, deb, el, sc) :
        st \in StatusValues, gw \in GatewayValues, am \in AmountValues,
        cu \in CurrencyValues, deb \in DebitedValues, el \in ElapsedValues,
        sc \in CertaintyValues}
    \cup {scenarios[k].data : k \in 1..Len(scenarios)}
    \cup {Null}

(***************************************************************************)
(* The program: module load runs the scenarios (lines 115-122) and exports *)
(* analyzeCase (line 125); afterwards a caller builds a record, has it     *)
(* evaluated, and may edit and re-evaluate it.  JavaScript runs each call  *)
(* to completion, so a call is one step.                                   *)
(***************************************************************************)
Init ==
    /\ RULES = RulesInit
    /\ pc = "banner"
    /\ i = 1
    /\ data = Undefined
    /\ result = NoResult
    /\ console = 0
    /\ outputs = << >>
    /\ calls = 0

\* line 116
Banner ==
    /\ pc = "banner"
    /\ pc' = "forEach"
    /\ console' = console + 1
    /\ UNCHANGED <<RULES, i, data, result, outputs, calls>>

\* lines 117-122, one iteration of scenarios.forEach: the scenario's name,
\* the call of analyzeCase, then the OUTPUT line and an empty line.  outputs
\* is the sequence of results printed by the OUTPUT lines.
RunScenario ==
    /\ pc = "forEach"
    /\ i <= Len(scenarios)
    /\ LET c == CallAnalyzeCase(scenarios[i].data, RULES)
       IN  /\ data' = c.data
           /\ RULES' = c.rules
           /\ result' = c.ret
           /\ IF c.ret.completion = "throw"
              THEN \* uncaught: the load stops after lines 118 and 26
                   /\ pc' = "crashed"
                   /\ outputs' = outputs
                   /\ console' = console + 1 + c.lines
              ELSE /\ pc' = pc
                   /\ outputs' = Append(outputs, c.ret)
                   /\ console' = console + 1 + c.lines + 2
    /\ i' = i + 1
    /\ UNCHANGED calls

\* line 125
Export ==
    /\ pc = "forEach"
    /\ i > Len(scenarios)
    /\ pc' = "exported"
    /\ UNCHANGED <<RULES, i, data, result, console, outputs, calls>>

\* A caller builds the record it is going to pass.
Submit ==
    /\ pc = "exported"
    /\ pc' = "built"
    /\ \E rec \in Inputs : data' = rec
    /\ UNCHANGED <<RULES, i, result, console, outputs, calls>>

\* The caller calls analyzeCase on its record.  An exception propagates to
\* the caller, which records it as the outcome.
Evaluate ==
    /\ pc \in {"built", "evaluated"}
    /\ calls < MaxCalls
    /\ LET c == CallAnalyzeCase(data, RULES)
       IN  /\ data' = c.data
           /\ RULES' = c.rules
           /\ result' = c.ret
           /\ console' = console + c.lines
    /\ pc' = "evaluated"
    /\ calls' = calls + 1
    /\ UNCHANGED <<i, outputs>>

\* The caller changes the two audit fields of its record.
Revise ==
    /\ pc \in {"built", "evaluated"}
    /\ IsObjectCoercible(data)
    /\ \E gw \in GatewayValues, cu \in CurrencyValues :
          data' = [data EXCEPT !.gateway_response = gw, !.currency = cu]
    /\ data' # data
    /\ pc' = "built"
    /\ UNCHANGED <<RULES, i, result, console, outputs, calls>>

Next ==
    \/ Banner
    \/ RunScenario
    \/ Export
    \/ Submit
    \/ Evaluate
    \/ Revise

Spec == Init /\ [][Next]_vars

\* result is the completion of a call on the record now in data.
Evaluated == (pc = "forEach" /\ i > 1) \/ pc \in {"exported", "evaluated"}

(***************************************************************************)
(* Vocabulary of the properties: the conditions of the five rules as       *)
(* statements about numbers and enumerated values (no coercion).           *)
(***************************************************************************)
IsNumber(v) == v.t = "number" /\ v.d > 0

Above(v, k) == IsNumber(v) /\ v.n > k * v.d

Below(v, k) == IsNumber(v) /\ v.n < k * v.d

AtLeast(v, k) == IsNumber(v) /\ v.n >= k * v.d

AtMost(v, k) == IsNumber(v) /\ v.n <= k * v.d

IsRecord(d) == d.t = "object"

Limbo(d) == d.debited_from_customer = Bool(TRUE) /\ d.status = Str("FAILED")

Pending(d) == d.status = Str("PENDING")

\* The rule of section 4.1 that is first to match d.
FirstRule(d) ==
    IF Limbo(d) THEN 1
    ELSE IF Above(d.amount, HIGH_VALUE_THRESHOLD) THEN 2
    ELSE IF Below(d.system_certainty_score, CERTAINTY_THRESHOLD) THEN 3
    ELSE IF Pending(d) THEN 4
    ELSE 5

RuleReasons ==
    << {ReasonCritical}, {ReasonRisk}, {ReasonUncertainty},
       {ReasonStandard, ReasonSlaBreach}, {ReasonDefault} >>

WellFormed(d) ==
    /\ IsRecord(d)
    /\ d.status \in {Str("FAILED"), Str("PENDING"), Str("SUCCESS")}
    /\ d.debited_from_customer \in {Bool(TRUE), Bool(FALSE)}
    /\ AtLeast(d.amount, 0)
    /\ AtLeast(d.time_elapsed_hours, 0)
    /\ AtLeast(d.system_certainty_score, 0)
    /\ AtMost(d.system_certainty_score, 1)

\* Section 7: a missing required field, an unrecognized enum value, a
\* negative amount or elapsed time, a certainty score outside [0,1].
Malformed(d) ==
    /\ IsRecord(d)
    /\ \/ ~WellFormed(d)
       \/ d.gateway_response \notin {Str("FAILURE"), Str("TIMEOUT"), Str("SUCCESS")}

\* The five fields the rules are stated over.
Agree5(d, e) ==
    /\ IsRecord(d)
    /\ IsRecord(e)
    /\ d.status = e.status
    /\ d.amount = e.amount
    /\ d.debited_from_customer = e.debited_from_customer
    /\ d.time_elapsed_hours = e.time_elapsed_hours
    /\ d.system_certainty_score = e.system_certainty_score

\* A caller's call of analyzeCase has just returned or thrown.
CallerEvaluated == pc = "evaluated"

(***************************************************************************)
(* Properties                                                              *)
(***************************************************************************)
\* C1: for every input record, analyzeCase returns WAIT only if status is
\* PENDING, amount does not exceed 5000, systemCertaintyScore is at least
\* 1.0 and timeElapsedHours is strictly below 24; every other record is
\* answered with ESCALATE.
C1_WaitOnlyOnNarrowPath ==
    (Evaluated /\ IsRecord(data)) =>
        /\ result.completion = "return"
        /\ result.decision \in {"WAIT", "ESCALATE"}
        /\ result.decision = "WAIT" =>
              /\ Pending(data)
              /\ ~Above(data.amount, HIGH_VALUE_THRESHOLD)
              /\ AtLeast(data.system_certainty_score, CERTAINTY_THRESHOLD)
              /\ Below(data.time_elapsed_hours, AUTO_REVERSAL_WINDOW_HOURS)

\* C2: every record with debited_from_customer true and status FAILED gets
\* ESCALATE with the limbo reason, whatever its other fields.
C2_LimboDominates ==
    (Evaluated /\ IsRecord(data) /\ Limbo(data)) =>
        result = Return("ESCALATE", ReasonCritical, Undefined)

\* C2 witness: a limbo record that also exceeds the high-value threshold has
\* been answered by a caller's call.
C2_Witness ==
    /\ CallerEvaluated
    /\ IsRecord(data)
    /\ Limbo(data)
    /\ Above(data.amount, HIGH_VALUE_THRESHOLD)
    /\ result.reason = ReasonCritical

\* C3: an amount strictly above the threshold always gets ESCALATE, with the
\* high-value reason unless rule 1 matches; an amount equal to the threshold
\* never gets the high-value reason, and a PENDING record with that amount,
\* certainty 1.0 and elapsed time below the window gets WAIT.
C3_HighValue ==
    (Evaluated /\ IsRecord(data)) =>
        /\ Above(data.amount, HIGH_VALUE_THRESHOLD) =>
              /\ result.completion = "return"
              /\ result.decision = "ESCALATE"
              /\ ~Limbo(data) => result = Return("ESCALATE", ReasonRisk, data.amount)
        /\ data.amount = Num(HIGH_VALUE_THRESHOLD, 1) =>
              /\ result.reason # ReasonRisk
              /\ ( /\ Pending(data)
                   /\ data.system_certainty_score = Num(CERTAINTY_THRESHOLD, 1)
                   /\ Below(data.time_elapsed_hours, AUTO_REVERSAL_WINDOW_HOURS) )
                 => result.decision = "WAIT"

\* C3 witness: a PENDING record just above the threshold, fully certain and
\* inside the window, has been escalated for its value.
C3_Witness ==
    /\ CallerEvaluated
    /\ IsRecord(data)
    /\ Pending(data)
    /\ data.amount = Num(2 * HIGH_VALUE_THRESHOLD + 1, 2)
    /\ data.system_certainty_score = Num(CERTAINTY_THRESHOLD, 1)
    /\ Below(data.time_elapsed_hours, AUTO_REVERSAL_WINDOW_HOURS)
    /\ result.reason = ReasonRisk

\* C4: a record that passes rules 1 and 2 and whose certainty is strictly
\* below the threshold gets ESCALATE with the insufficient-certainty reason,
\* whatever its status and elapsed time; with certainty equal to the threshold
\* it is decided by rules 4 and 5.
C4_LowCertainty ==
    ( /\ Evaluated
      /\ IsRecord(data)
      /\ ~Limbo(data)
      /\ ~Above(data.amount, HIGH_VALUE_THRESHOLD) ) =>
        /\ Below(data.system_certainty_score, CERTAINTY_THRESHOLD) =>
              result = Return("ESCALATE", ReasonUncertainty, Undefined)
        /\ data.system_certainty_score = Num(CERTAINTY_THRESHOLD, 1) =>
              result.reason \in {ReasonStandard, ReasonSlaBreach, ReasonDefault}

\* C4 witness: a PENDING record inside the window with certainty below the
\* threshold has been escalated for its certainty.
C4_Witness ==
    /\ CallerEvaluated
    /\ IsRecord(data)
    /\ Pending(data)
    /\ AtMost(data.amount, HIGH_VALUE_THRESHOLD)
    /\ Below(data.time_elapsed_hours, AUTO_REVERSAL_WINDOW_HOURS)
    /\ Below(data.system_certainty_score, CERTAINTY_THRESHOLD)
    /\ result.reason = ReasonUncertainty

\* C5: a PENDING record with amount at most the threshold and certainty at
\* least the threshold gets WAIT when the elapsed time is strictly below the
\* window, and ESCALATE with the SLA-breach reason when it is equal to or
\* above the window.
C5_PendingWindow ==
    ( /\ Evaluated
      /\ IsRecord(data)
      /\ Pending(data)
      /\ AtMost(data.amount, HIGH_VALUE_THRESHOLD)
      /\ AtLeast(data.system_certainty_score, CERTAINTY_THRESHOLD) ) =>
        /\ Below(data.time_elapsed_hours, AUTO_REVERSAL_WINDOW_HOURS) =>
              result = Return("WAIT", ReasonStandard,
                              Num(AUTO_REVERSAL_WINDOW_HOURS, 1))
        /\ AtLeast(data.time_elapsed_hours, AUTO_REVERSAL_WINDOW_HOURS) =>
              result = Return("ESCALATE", ReasonSlaBreach, Undefined)

\* C5 witness: a PENDING record whose elapsed time equals the window has
\* been escalated as an SLA breach.
C5_Witness ==
    /\ CallerEvaluated
    /\ IsRecord(data)
    /\ Pending(data)
    /\ data.time_elapsed_hours = Num(AUTO_REVERSAL_WINDOW_HOURS, 1)
    /\ result.reason = ReasonSlaBreach

\* C6: no status other than PENDING yields WAIT, and a record that rules 1 to
\* 4 do not match (not limbo, amount not above the threshold, certainty not
\* below the threshold, status not PENDING) gets ESCALATE with the default
\* reason.
C6_DefaultCatchAll ==
    (Evaluated /\ IsRecord(data)) =>
        /\ ~Pending(data) => result.decision # "WAIT"
        /\ ( /\ ~Limbo(data)
             /\ ~Above(data.amount, HIGH_VALUE_THRESHOLD)
             /\ ~Below(data.system_certainty_score, CERTAINTY_THRESHOLD)
             /\ ~Pending(data) )
           => result = Return("ESCALATE", ReasonDefault, Undefined)

\* C6 witness: a record with an unrecognized status has been answered with
\* the default reason.
C6_Witness ==
    /\ CallerEvaluated
    /\ IsRecord(data)
    /\ data.status = Str("REFUNDED")
    /\ result.reason = ReasonDefault

\* C7: for every well-formed record the call returns (it does not throw), the
\* decision is WAIT or ESCALATE, and the reason is that of the first rule, in
\* the order 1 to 5, that matches the record.
C7_Totality ==
    (Evaluated /\ WellFormed(data)) =>
        /\ result.completion = "return"
        /\ result.decision \in {"WAIT", "ESCALATE"}
        /\ result.reason \in RuleReasons[FirstRule(data)]
        /\ result.decision = "WAIT" => FirstRule(data) = 4

\* C7 witness: a well-formed SUCCESS record has been answered by rule 5.
C7_Witness ==
    /\ CallerEvaluated
    /\ WellFormed(data)
    /\ data.status = Str("SUCCESS")
    /\ FirstRule(data) = 5
    /\ result.reason = ReasonDefault

\* C8: a malformed record (missing field, unrecognized status or gateway
\* response, negative amount or elapsed time, certainty outside [0,1]) never
\* receives a WAIT or ESCALATE decision.
C8_MalformedRejected ==
    (Evaluated /\ IsRecord(data) /\ Malformed(data)) =>
        result.decision \notin {"WAIT", "ESCALATE"}

C10_AuditFieldsIgnored ==
    [][(calls' = calls + 1 /\ IsRecord(data)) =>
          /\ result'.completion = "return"
          /\ (calls > 0) => result' = result
          /\ \A k \in 1..Len(outputs) :
                Agree5(data, scenarios[k].data) => result' = outputs[k]
      ]_vars

\* C10 witness: a record that differs from the limbo scenario only in its
\* gateway_response (unrecognized) and currency (present) has been evaluated
\* after an earlier version of it, with the scenario's result.
C10_Witness ==
    /\ CallerEvaluated
    /\ calls = 2
    /\ Agree5(data, scenarios[2].data)
    /\ data.gateway_response = Str("BOGUS")
    /\ data.currency = Str("INR")
    /\ result = outputs[2]

====
